---- MODULE Spec2Model ----
(***************************************************************************)
(* fuzzyQ: the suggestion ranking engine (fuzzy_match, levenshtein,        *)
(* get_suggestions, semantic_match, get_semantic_suggestions) and the key  *)
(* loop of main that drives it.                                            *)
(*                                                                         *)
(* A Rust String is modelled as the sequence of its chars, each char being *)
(* the tuple of its UTF-8 bytes: str::len, str::find and the slices count  *)
(* bytes while str::chars counts chars, and the code mixes the two.        *)
(***************************************************************************)
EXTENDS Integers, Sequences, FiniteSets, TLC

VARIABLES query, candidate, result, dist,
          pc, semantic_search, sample_options, embeddings,
          typed, suggestions, last_suggestion_count, screen,
          rank_outcome, rows_drawn

vars == <<query, candidate, result, dist,
          pc, semantic_search, sample_options, embeddings,
          typed, suggestions, last_suggestion_count, screen,
          rank_outcome, rows_drawn>>

fnVars == <<query, candidate, result, dist>>

mainVars == <<pc, semantic_search, sample_options, embeddings,
              typed, suggestions, last_suggestion_count, screen,
              rank_outcome, rows_drawn>>

-----------------------------------------------------------------------------
(* Characters: the UTF-8 encoding of each.                                  *)

CH_a == <<97>>
CH_A == <<65>>
CH_k == <<107>>
\* U+00E9 LATIN SMALL LETTER E WITH ACUTE, two bytes
CH_eacute == <<195, 169>>
\* U+212A KELVIN SIGN, three bytes; its lowercase is U+006B 'k', one byte
CH_Kelvin == <<226, 132, 170>>

Min2(x, y) == IF x <= y THEN x ELSE y

\* usize::saturating_sub
SatSub(x, y) == IF x >= y THEN x - y ELSE 0

\* char::to_lowercase, on the characters of the model
LowerChar(ch) ==
    IF Len(ch) = 1 /\ ch[1] >= 65 /\ ch[1] <= 90 THEN <<ch[1] + 32>>
    ELSE IF ch = CH_Kelvin THEN CH_k
    ELSE ch

\* str::to_lowercase: char by char
to_lowercase(s) == [i \in 1..Len(s) |-> LowerChar(s[i])]

\* the bytes of a string: the concatenation of its chars' encodings
RECURSIVE BytesOf(_, _, _)
BytesOf(s, lo, hi) ==
    IF hi < lo THEN <<>>
    ELSE IF hi = lo THEN s[lo]
    ELSE LET mid == (lo + hi) \div 2
         IN BytesOf(s, lo, mid) \o BytesOf(s, mid + 1, hi)

Bytes(s) == BytesOf(s, 1, Len(s))

\* str::len: the length in bytes
ByteLen(s) == Len(Bytes(s))

\* str::is_char_boundary on the bytes b, for a 0-based offset at <= Len(b):
\* the start, the end, or a byte that is no continuation byte (0x80..0xBF)
IsCharBoundary(b, at) ==
    \/ at = 0
    \/ at = Len(b)
    \/ at < Len(b) /\ ~(b[at + 1] >= 128 /\ b[at + 1] <= 191)

\* the first 0-based offset >= from at which the bytes pat occur in b, or -1
FindFrom(b, pat, from) ==
    LET hits == {p \in from..(Len(b) - Len(pat)) :
                    \A k \in 1..Len(pat) : b[p + k] = pat[k]}
    IN IF hits = {} THEN -1
       ELSE CHOOSE p \in hits : \A r \in hits : p <= r

\* str::starts_with
StartsWith(b, pat) ==
    /\ Len(pat) <= Len(b)
    /\ \A k \in 1..Len(pat) : b[k] = pat[k]

-----------------------------------------------------------------------------------------------------------------------------------------------------
(* levenshtein: one rolling cost row, sized by b's BYTE length, walked by   *)
(* a's and b's CHARS.  costs is 1-based here: costs[j] of the code is       *)
(* costs[j + 1].  The two loops are folds over their index ranges, split in *)
(* halves so that the evaluation stays shallow on long strings.             *)

\* the body of the inner loop, for char ca of a and the j-th char of b
LevCell(ca, b, j, st) ==
    LET new == IF ca = b[j + 1] THEN st.last
               ELSE 1 + Min2(Min2(st.last, st.costs[j + 1]), st.costs[j + 2])
    IN [last |-> st.costs[j + 2], costs |-> [st.costs EXCEPT ![j + 2] = new]]

\* the inner loop for j in lo..hi-1
RECURSIVE LevInner(_, _, _, _, _)
LevInner(ca, b, lo, hi, st) ==
    IF hi <= lo THEN st
    ELSE IF hi = lo + 1 THEN LevCell(ca, b, lo, st)
    ELSE LET mid == (lo + hi) \div 2
             left == LevInner(ca, b, lo, mid, st)
         IN IF left.last >= 0 THEN LevInner(ca, b, mid, hi, left) ELSE left

\* the body of the outer loop, for the i-th char of a
LevRow(a, b, i, costs) ==
    LevInner(a[i + 1], b, 0, Len(b),
             [last |-> i, costs |-> [costs EXCEPT ![1] = i + 1]]).costs

\* the outer loop for i in lo..hi-1
RECURSIVE LevOuter(_, _, _, _, _)
LevOuter(a, b, lo, hi, costs) ==
    IF hi <= lo THEN costs
    ELSE IF hi = lo + 1 THEN LevRow(a, b, lo, costs)
    ELSE LET mid == (lo + hi) \div 2
             left == LevOuter(a, b, lo, mid, costs)
         IN IF left[1] >= 0 THEN LevOuter(a, b, mid, hi, left) ELSE left

levenshtein(a, b) ==
    LET n == ByteLen(b)
        costs0 == [k \in 1..(n + 1) |-> k - 1]
    IN LevOuter(a, b, 0, Len(a), costs0)[n + 1]

-----------------------------------------------------------------------------
(* fuzzy_match                                                              *)

ExactScore == 1000
SubstringBonus == 200
QueryLenFactor == 10
PositionBonus == 100
PrefixBonus == 150
MatchedFactor == 10
GapBonus == 50
MaxBonusDist == 2
DistBase == 3
DistFactor == 30
ScoreClamp == 1000

\* Option<Suggestion>, or the panic that unwinds out of the call
Some(text, match_indices, score) ==
    [tag |-> "Some", text |-> text, match_indices |-> match_indices, score |-> score]

None == [tag |-> "None", text |-> <<>>, match_indices |-> <<>>, score |-> 0]

Panicked == [tag |-> "Panic", text |-> <<>>, match_indices |-> <<>>, score |-> 0]

NotCalled == [tag |-> "NotCalled", text |-> <<>>, match_indices |-> <<>>, score |-> 0]

\* 1. exact match: (0..q.len()).collect(), q.len() in bytes of the lowercased query
ExactMatch(candidate_, q) ==
    Some(candidate_, [i \in 1..ByteLen(q) |-> i - 1], ExactScore)

\* 2. substring match: the score it adds, on the bytes of c and q
SubstringScore(cb, qb) ==
    LET pos == FindFrom(cb, qb, 0)
    IN IF pos = -1 THEN 0
       ELSE SubstringBonus + Len(qb) * QueryLenFactor + SatSub(PositionBonus, pos)

\* 2. substring match: match_indices = (pos..pos + q.len()).collect()
SubstringIndices(cb, qb) ==
    LET pos == FindFrom(cb, qb, 0)
    IN IF pos = -1 THEN <<>>
       ELSE [i \in 1..Len(qb) |-> pos + i - 1]

\* 3. prefix bonus
PrefixScore(cb, qb) == IF StartsWith(cb, qb) THEN PrefixBonus ELSE 0

\* mutant of ScanStep: the gap counted from the previous match itself
ScanStepGapOffByOne(q, cb, k, st) ==
    IF st.panic THEN st
    ELSE IF ~IsCharBoundary(cb, st.last) THEN [st EXCEPT !.panic = TRUE]
    ELSE LET real == FindFrom(cb, q[k + 1], st.last)
             mi == st.match_indices
         IN IF real = -1 THEN st
            ELSE [panic |-> FALSE,
                  last |-> real + 1,
                  gaps |-> IF mi # <<>>
                           THEN st.gaps + SatSub(real, mi[Len(mi)])
                           ELSE st.gaps,
                  match_indices |-> Append(mi, real)]

\* 4. the body of the subsequence loop, for the k-th char of q.  c[last..]
\* panics when last is not a char boundary of c, and the panic ends the loop.
ScanStep(q, cb, k, st) ==
    IF st.panic THEN st
    ELSE IF ~IsCharBoundary(cb, st.last) THEN [st EXCEPT !.panic = TRUE]
    ELSE LET real == FindFrom(cb, q[k + 1], st.last)
             mi == st.match_indices
         IN IF real = -1 THEN st
            ELSE [panic |-> FALSE,
                  last |-> real + 1,
                  gaps |-> IF mi # <<>>
                           THEN st.gaps + SatSub(real, mi[Len(mi)] + 1)
                           ELSE st.gaps,
                  match_indices |-> Append(mi, real)]

\* 4. the subsequence loop over the chars lo..hi-1 of q, split in halves
RECURSIVE SubseqScan(_, _, _, _, _)
SubseqScan(q, cb, lo, hi, st) ==
    IF hi <= lo THEN st
    ELSE IF hi = lo + 1 THEN ScanStep(q, cb, lo, st)
    ELSE LET mid == (lo + hi) \div 2
             left == SubseqScan(q, cb, lo, mid, st)
         IN IF left.last >= 0 THEN SubseqScan(q, cb, mid, hi, left) ELSE left

\* 4. the bonus for the matched positions and the gaps between them
SubseqScore(matched, gaps) ==
    IF matched > 0 THEN matched * MatchedFactor + SatSub(GapBonus, gaps) ELSE 0

\* 5. edit distance bonus
EditBonus(d) == IF d <= MaxBonusDist THEN (DistBase - d) * DistFactor ELSE 0

\* mutant of Clamp: the cap left out
ClampMissing(score) == score

\* 6. clamp
Clamp(score) == IF score > ScoreClamp THEN ScoreClamp ELSE score

\* the subsequence loop of fuzzy_match on the lowercased q and c
Scan(q, c) ==
    LET cb == Bytes(c)
    IN SubseqScan(q, cb, 0, Len(q),
                  [panic |-> FALSE, last |-> 0, gaps |-> 0,
                   match_indices |-> SubstringIndices(cb, Bytes(q))])

\* the sum of the bonuses of steps 2 to 5, before the clamp, given the
\* outcome of the subsequence loop
ScoreSum(q, c, scan) ==
    LET qb == Bytes(q)
        cb == Bytes(c)
    IN SubstringScore(cb, qb) + PrefixScore(cb, qb)
       + SubseqScore(Len(scan.match_indices), scan.gaps)
       + EditBonus(levenshtein(q, c))

RawScore(q, c) == ScoreSum(q, c, Scan(q, c))

fuzzy_match(query_, candidate_) ==
    LET q == to_lowercase(query_)
        c == to_lowercase(candidate_)
        scan == Scan(q, c)
    IN IF q = c THEN ExactMatch(candidate_, q)
       ELSE IF scan.panic THEN Panicked
       ELSE Some(candidate_, scan.match_indices, Clamp(ScoreSum(q, c, scan)))

-----------------------------------------------------------------------------
(* Inputs of the function-level specification                               *)

MaxQueryLen == 2
MaxCandLen == 3
\* the query length at which the bonuses of a non-equal pair first pass ScoreClamp
ClampLen == 15
\* a query length at which a subsequence-only match passes ScoreClamp
SaturateLen == 90

Alphabet == {CH_a, CH_A, CH_eacute, CH_Kelvin}

StringsUpTo(n) == UNION {[1..k -> Alphabet] : k \in 0..n}

Rep(ch, n) == [i \in 1..n |-> ch]

\* a^n with one k in the middle
Split(n) == Rep(CH_a, n \div 2) \o <<CH_k>> \o Rep(CH_a, n - (n \div 2))

LongPairs ==
    {<<Rep(CH_a, n), Rep(CH_a, n + 1)>> : n \in {ClampLen - 1, ClampLen}}
    \cup {<<Rep(CH_a, SaturateLen), Split(SaturateLen)>>,
          <<Rep(CH_a, SaturateLen), Rep(CH_a, SaturateLen + 1)>>}

\* the spec's example: query "ct" against "cat" and "act"
CH_c == <<99>>
CH_t == <<116>>
Str_ct == <<CH_c, CH_t>>
Str_cat == <<CH_c, CH_a, CH_t>>
Str_act == <<CH_a, CH_c, CH_t>>

ExamplePairs == {<<Str_ct, Str_cat>>, <<Str_ct, Str_act>>}

Inputs ==
    (StringsUpTo(MaxQueryLen) \X StringsUpTo(MaxCandLen))
    \cup LongPairs \cup ExamplePairs

Candidates == {p[2] : p \in Inputs}

MainIdle ==
    /\ pc = "idle"
    /\ semantic_search = FALSE
    /\ sample_options = <<>>
    /\ embeddings = <<>>
    /\ typed = <<>>
    /\ suggestions = <<>>
    /\ last_suggestion_count = 0
    /\ screen = <<>>
    /\ rank_outcome = "none"
    /\ rows_drawn = 0

Init ==
    /\ \E p \in Inputs : query = p[1] /\ candidate = p[2]
    /\ result = NotCalled
    /\ dist = -1
    /\ MainIdle

CallFuzzyMatch ==
    /\ result.tag = "NotCalled"
    /\ result' = fuzzy_match(query, candidate)
    /\ UNCHANGED <<query, candidate, dist, mainVars>>

CallLevenshtein ==
    /\ dist = -1
    /\ dist' = levenshtein(query, candidate)
    /\ UNCHANGED <<query, candidate, result, mainVars>>

Next == CallFuzzyMatch \/ CallLevenshtein

Spec == Init /\ [][Next]_vars

-----------------------------------------------------------------------------
(* The rankers                                                              *)

\* Suggestion { text, match_indices, score }
Suggestion(r) == [text |-> r.text, match_indices |-> r.match_indices, score |-> r.score]

\* what a ranker call ends in: the Vec it returns, or a panic
Returned(list) == [panic |-> FALSE, list |-> list]

Unwound == [panic |-> TRUE, list |-> <<>>]

\* one step of the stable sort: s goes behind every element whose score is
\* not smaller than its own
InsertByScore(sorted, s) ==
    LET k == Cardinality({i \in 1..Len(sorted) : sorted[i].score >= s.score})
    IN SubSeq(sorted, 1, k) \o <<s>> \o SubSeq(sorted, k + 1, Len(sorted))

RECURSIVE StableSortDesc(_)
StableSortDesc(seq) ==
    IF seq = <<>> THEN <<>>
    ELSE InsertByScore(StableSortDesc(SubSeq(seq, 1, Len(seq) - 1)), seq[Len(seq)])

\* mutant of sort_by: the sort left out
SortMissing(seq) == seq

\* suggestions.sort_by(|a, b| b.score.cmp(&a.score)): stable, descending
sort_by(seq) == StableSortDesc(seq)

\* .filter_map(..).collect(): the Some results, in order
FilterMap(rs) ==
    LET kept == SelectSeq(rs, LAMBDA r : r.tag = "Some")
    IN [i \in 1..Len(kept) |-> Suggestion(kept[i])]

get_suggestions(query_, options) ==
    LET rs == [i \in 1..Len(options) |-> fuzzy_match(query_, options[i])]
    IN IF \E i \in 1..Len(rs) : rs[i].tag = "Panic" THEN Unwound
       ELSE Returned(sort_by(FilterMap(rs)))

\* a.iter().zip(b).map(|(x, y)| x * y).sum(): zip stops at the shorter vector
RECURSIVE Dot(_, _, _)
Dot(a, b, n) == IF n = 0 THEN 0 ELSE Dot(a, b, n - 1) + a[n] * b[n]

cosine_similarity(a, b) == Dot(a, b, Min2(Len(a), Len(b)))

\* f32 as usize: saturating, so a negative value becomes 0
AsUsize(x) == IF x < 0 THEN 0 ELSE x

semantic_match(query_, candidate_, query_embedding, candidate_embedding) ==
    LET f_match == fuzzy_match(query_, candidate_)
    IN IF f_match.tag = "Panic" THEN Panicked
       ELSE Some(candidate_,
                 IF f_match.tag = "Some" THEN f_match.match_indices ELSE <<>>,
                 AsUsize(cosine_similarity(query_embedding, candidate_embedding) * 1000))

get_semantic_suggestions(query_, option_embeddings, query_embedding) ==
    LET rs == [i \in 1..Len(option_embeddings) |->
                  semantic_match(query_, option_embeddings[i].text,
                                 query_embedding, option_embeddings[i].emb)]
    IN IF \E i \in 1..Len(rs) : rs[i].tag = "Panic" THEN Unwound
       ELSE Returned(sort_by(FilterMap(rs)))

-----------------------------------------------------------------------------
(* The key loop of main                                                     *)

DisplayLimit == 20
MaxTyped == 3

CH_h == <<104>>
CH_e == <<101>>
CH_y == <<121>>
CH_p == <<112>>
CH_x == <<120>>
CH_z == <<122>>
Str_hey == <<CH_h, CH_e, CH_y>>
Str_heyp == <<CH_h, CH_e, CH_y, CH_p>>
Str_xyz == <<CH_x, CH_y, CH_z>>
Str_heacutey == <<CH_h, CH_eacute, CH_y>>

\* the chars the keyboard sends
KeyChars == {CH_h, CH_e, CH_y, CH_eacute}

\* the length of a word list longer than the display limit
LongListLen == 22

\* LongListLen different words: up to three h, then up to two e, then up to
\* one y
LongOptions ==
    [i \in 1..LongListLen |->
        Rep(CH_h, i % 4) \o Rep(CH_e, (i \div 4) % 3) \o Rep(CH_y, i \div 12)]

\* contents of words.txt
OptionLists ==
    {<<Str_hey, Str_heyp, Str_xyz>>,
     <<Str_xyz, Str_heyp, Str_hey>>,
     <<Str_heacutey, Str_hey>>,
     LongOptions}

\* what model.embed returns for typed
QueryVectors == {<<1, 0>>, <<0, 1>>, <<-1, 0>>}

\* contents of word_embeddings.txt: unit vectors, and one vector that a
\* component failing to parse has shortened; a table with a word that is
\* not ASCII; a table longer than the display limit, its last word not ASCII
UnitTable ==
    <<[text |-> Str_hey, emb |-> <<0, 1>>],
      [text |-> Str_heyp, emb |-> <<1, 0>>],
      [text |-> Str_xyz, emb |-> <<-1, 0>>]>>

EmbeddingTables ==
    {UnitTable,
     <<[text |-> Str_xyz, emb |-> <<1>>],
       [text |-> Str_hey, emb |-> <<1, 0>>]>>,
     <<[text |-> Str_heacutey, emb |-> <<1, 0>>],
       [text |-> Str_hey, emb |-> <<0, 1>>]>>,
     [i \in 1..LongListLen |->
         [text |-> IF i = LongListLen THEN Str_heacutey ELSE LongOptions[i],
          emb |-> IF i % 2 = 0 THEN <<1, 0>> ELSE <<0, 1>>]]}

\* the files main finds: without embeddings any word list; with them the
\* first word list next to any table, and a word list that is not ASCII
\* next to the unit table
Files ==
    [semantic_search : {FALSE}, sample_options : OptionLists, embeddings : {<<>>}]
    \cup [semantic_search : {TRUE}, sample_options : {<<Str_hey, Str_heyp, Str_xyz>>},
          embeddings : EmbeddingTables]
    \cup [semantic_search : {TRUE}, sample_options : {<<Str_heacutey, Str_hey>>},
          embeddings : {UnitTable}]

InitMain ==
    /\ query = <<>>
    /\ candidate = <<>>
    /\ result = NotCalled
    /\ dist = -1
    /\ pc = "loop"
    /\ \E f \in Files :
          /\ semantic_search = f.semantic_search
          /\ sample_options = f.sample_options
          /\ embeddings = f.embeddings
    /\ typed = <<>>
    /\ suggestions = <<>>
    /\ last_suggestion_count = 0
    /\ screen = <<>>
    /\ rank_outcome = "none"
    /\ rows_drawn = 0

\* the rows below the header are cleared, the first last_count of them
clear_previous_suggestions(scr, last_count) ==
    [i \in 1..(IF Len(scr) > last_count THEN Len(scr) ELSE last_count) |->
        IF i <= last_count THEN <<>> ELSE scr[i]]

\* &text[from..to] on the bytes tb of text: it panics unless from <= to <= len
\* and both are char boundaries
SliceOk(tb, from, to) ==
    /\ from <= to
    /\ to <= Len(tb)
    /\ IsCharBoundary(tb, from)
    /\ IsCharBoundary(tb, to)

\* the body of the highlight loop for one match index: the plain run before
\* idx when there is one, then the byte at idx in green
HighlightStep(tb, idx, st) ==
    IF st.panic THEN st
    ELSE IF idx > st.last_idx /\ ~SliceOk(tb, st.last_idx, idx)
    THEN [st EXCEPT !.panic = TRUE]
    ELSE LET out1 == IF idx > st.last_idx
                     THEN st.out \o SubSeq(tb, st.last_idx + 1, idx)
                     ELSE st.out
         IN IF ~SliceOk(tb, idx, idx + 1)
            THEN [panic |-> TRUE, last_idx |-> st.last_idx, out |-> out1]
            ELSE [panic |-> FALSE, last_idx |-> idx + 1,
                  out |-> Append(out1, tb[idx + 1])]

RECURSIVE HighlightLoop(_, _, _, _)
HighlightLoop(tb, mi, k, st) ==
    IF k > Len(mi) THEN st
    ELSE HighlightLoop(tb, mi, k + 1, HighlightStep(tb, mi[k], st))

\* the text of one suggestion as the highlight loop prints it, and the rest
\* of text after the last match index.  The score bar behind it is left out.
Highlight(sug) ==
    LET tb == Bytes(sug.text)
        st == HighlightLoop(tb, sug.match_indices, 1,
                            [panic |-> FALSE, last_idx |-> 0, out |-> <<>>])
    IN IF st.panic THEN st
       ELSE IF st.last_idx < Len(tb)
       THEN IF SliceOk(tb, st.last_idx, Len(tb))
            THEN [st EXCEPT !.out = st.out \o SubSeq(tb, st.last_idx + 1, Len(tb))]
            ELSE [st EXCEPT !.panic = TRUE]
       ELSE st

\* the rows k.. of the list are drawn, each on a cleared line; a panic in a
\* row leaves what was printed of it and ends the program.  rows is the
\* number of rows the loop has finished.
RECURSIVE DrawRows(_, _, _)
DrawRows(scr, top, k) ==
    IF k > Len(top) THEN [panic |-> FALSE, screen |-> scr, rows |-> k - 1]
    ELSE LET row == Highlight(top[k])
             scr1 == [i \in 1..(IF Len(scr) > k THEN Len(scr) ELSE k) |->
                         IF i = k THEN row.out ELSE IF i <= Len(scr) THEN scr[i] ELSE <<>>]
         IN IF row.panic THEN [panic |-> TRUE, screen |-> scr1, rows |-> k - 1]
            ELSE DrawRows(scr1, top, k + 1)

draw_suggestions(scr, top) == DrawRows(scr, top, 1)

\* the loop body with the count taken from the whole list, not from the cut
ShowCountsAll(list) ==
    LET top_suggestions == SubSeq(list, 1, Min2(Len(list), DisplayLimit))
        drawn == draw_suggestions(
                     clear_previous_suggestions(screen, last_suggestion_count),
                     top_suggestions)
    IN /\ suggestions' = list
       /\ screen' = drawn.screen
       /\ rows_drawn' = drawn.rows
       /\ IF drawn.panic
          THEN pc' = "panic" /\ UNCHANGED last_suggestion_count
          ELSE pc' = pc /\ last_suggestion_count' = Len(list)

\* the loop body once the ranker has returned list: cut to the display limit,
\* clear the rows of the last keystroke, draw, remember the count
Show(list) ==
    LET top_suggestions == SubSeq(list, 1, Min2(Len(list), DisplayLimit))
        drawn == draw_suggestions(
                     clear_previous_suggestions(screen, last_suggestion_count),
                     top_suggestions)
    IN /\ suggestions' = list
       /\ screen' = drawn.screen
       /\ rows_drawn' = drawn.rows
       /\ IF drawn.panic
          THEN pc' = "panic" /\ UNCHANGED last_suggestion_count
          ELSE pc' = pc /\ last_suggestion_count' = Len(top_suggestions)

\* the loop body after the match on key_event.code, with typed already edited
\* to new_typed.  A panic in a ranker ends the program before anything is
\* drawn or stored.  rank_outcome names the ranker whose call ended the
\* ranking, and tells whether it returned.
Rank(new_typed) ==
    LET lexical == get_suggestions(new_typed, sample_options)
    IN /\ typed' = new_typed
       /\ IF lexical.panic
          THEN /\ pc' = "panic"
               /\ rank_outcome' = "lexical_panicked"
               /\ UNCHANGED <<suggestions, last_suggestion_count, screen, rows_drawn>>
          ELSE IF semantic_search
          THEN \E typed_embed \in QueryVectors :
                  LET semantic == get_semantic_suggestions(new_typed, embeddings,
                                                           typed_embed)
                  IN IF semantic.panic
                     THEN /\ pc' = "panic"
                          /\ rank_outcome' = "semantic_panicked"
                          /\ UNCHANGED <<suggestions, last_suggestion_count,
                                         screen, rows_drawn>>
                     ELSE rank_outcome' = "semantic" /\ Show(semantic.list)
          ELSE rank_outcome' = "lexical" /\ Show(lexical.list)
       /\ UNCHANGED <<fnVars, semantic_search, sample_options, embeddings>>

\* KeyCode::Char(c) => typed.push(c)
KeyChar ==
    /\ pc = "loop"
    /\ Len(typed) < MaxTyped
    /\ \E c \in KeyChars : Rank(Append(typed, c))

\* KeyCode::Backspace => typed.pop()
KeyBackspace ==
    /\ pc = "loop"
    /\ Rank(IF typed = <<>> THEN typed ELSE SubSeq(typed, 1, Len(typed) - 1))

\* any other key: typed is left alone and the list is ranked again
KeyOther ==
    /\ pc = "loop"
    /\ Rank(typed)

\* Enter, Esc, Ctrl-C: break
KeyExit ==
    /\ pc = "loop"
    /\ pc' = "done"
    /\ UNCHANGED <<fnVars, semantic_search, sample_options, embeddings,
                   typed, suggestions, last_suggestion_count, screen,
                   rank_outcome, rows_drawn>>

NextMain == KeyChar \/ KeyBackspace \/ KeyOther \/ KeyExit

MainSpec == InitMain /\ [][NextMain]_vars

-----------------------------------------------------------------------------
(* Properties of fuzzy_match and levenshtein, checked under Spec            *)

Called == result.tag # "NotCalled"

LowerQ == to_lowercase(query)

LowerC == to_lowercase(candidate)

StrictlyIncreasing(seq) == \A i \in 1..(Len(seq) - 1) : seq[i] < seq[i + 1]

NoCharOfQueryInCandidate ==
    \A i \in 1..Len(LowerQ) : \A j \in 1..Len(LowerC) : LowerQ[i] # LowerC[j]

\* C1: for a non-empty query none of whose case-folded chars occurs in the
\* case-folded candidate, fuzzy_match returns None.
C1_NoSharedCharReturnsNone ==
    (Called /\ query # <<>> /\ NoCharOfQueryInCandidate) => result.tag = "None"

\* C2: the match_indices of every returned Suggestion are strictly increasing
\* and each is an offset smaller than the length of text.
C2_MatchIndicesValid ==
    result.tag = "Some" =>
        /\ StrictlyIncreasing(result.match_indices)
        /\ \A i \in 1..Len(result.match_indices) :
               result.match_indices[i] < ByteLen(result.text)

\* C3: when query and candidate are equal after case folding, fuzzy_match
\* returns score 1000 and match_indices 0, 1, ..., len-1 of the candidate.
C3_EqualGivesFullCover ==
    (Called /\ LowerQ = LowerC) =>
        /\ result.tag = "Some"
        /\ result.text = candidate
        /\ result.score = 1000
        /\ result.match_indices = [i \in 1..ByteLen(candidate) |-> i - 1]

\* C6: a Suggestion with score 1000 is returned only when query and candidate
\* are equal after case folding.
C6_Score1000OnlyForEqual ==
    (result.tag = "Some" /\ result.score = 1000) => LowerQ = LowerC

\* C7: every returned Suggestion has score <= 1000.
C7_ScoreAtMost1000 == result.tag = "Some" => result.score <= 1000

\* a non-equal pair whose bonuses sum to more than 1000 was scored
C7_Witness ==
    /\ result.tag = "Some"
    /\ LowerQ # LowerC
    /\ RawScore(LowerQ, LowerC) > 1000
    /\ result.score = 1000

\* the least number of single-char insertions, deletions and substitutions
\* that turn a into b
RECURSIVE EditDistance(_, _)
EditDistance(a, b) ==
    IF a = <<>> THEN Len(b)
    ELSE IF b = <<>> THEN Len(a)
    ELSE IF Head(a) = Head(b) THEN EditDistance(Tail(a), Tail(b))
    ELSE 1 + Min2(EditDistance(Tail(a), Tail(b)),
                  Min2(EditDistance(Tail(a), b), EditDistance(a, Tail(b))))

ShortInput == Len(query) <= MaxQueryLen /\ Len(candidate) <= MaxCandLen

\* C8: levenshtein(a, b) is the least number of single-char insertions,
\* substitutions and deletions that turn a into b, empty strings included.
C8_LevenshteinIsEditDistance ==
    (dist # -1 /\ ShortInput) => dist = EditDistance(query, candidate)

\* C9: levenshtein(a, b) = levenshtein(b, a), and levenshtein(a, a) = 0.
C9_LevenshteinSymmetricZero ==
    dist # -1 =>
        /\ dist = levenshtein(candidate, query)
        /\ query = candidate => dist = 0

\* where the greedy left-to-right match of the chars lo..hi of q, started at
\* the 1-based position pos of c, ends; beyond Len(c) + 1 when it fails
RECURSIVE GreedyEnd(_, _, _, _, _)
GreedyEnd(q, c, lo, hi, pos) ==
    IF hi < lo THEN pos
    ELSE IF hi = lo
    THEN LET hits == {p \in pos..Len(c) : c[p] = q[lo]}
         IN IF hits = {} THEN Len(c) + 2
            ELSE 1 + CHOOSE p \in hits : \A r \in hits : p <= r
    ELSE LET mid == (lo + hi) \div 2
             left == GreedyEnd(q, c, lo, mid, pos)
         IN IF left > Len(c) + 1 THEN left
            ELSE GreedyEnd(q, c, mid + 1, hi, left)

IsSubsequence(q, c) == GreedyEnd(q, c, 1, Len(q), 1) <= Len(c) + 1

IsSubstring(q, c) ==
    \E p \in 0..(Len(c) - Len(q)) : \A k \in 1..Len(q) : c[p + k] = q[k]

\* the candidate holds the query as a subsequence but not as a contiguous run
SubsequenceOnly == IsSubsequence(LowerQ, LowerC) /\ ~IsSubstring(LowerQ, LowerC)

\* the candidates of candidate's length that hold the query contiguously and
\* for which fuzzy_match returns a Suggestion
ContiguousPeers ==
    {c2 \in Candidates :
        /\ Len(c2) = Len(candidate)
        /\ IsSubstring(LowerQ, to_lowercase(c2))
        /\ fuzzy_match(query, c2).tag = "Some"}

\* the example of C10: "ct" against "cat" gives indices [0, 2], gap 1, score > 0
C10_Example ==
    (Called /\ query = Str_ct /\ candidate = Str_cat) =>
        /\ result.tag = "Some"
        /\ result.match_indices = <<0, 2>>
        /\ Scan(LowerQ, LowerC).gaps = 1
        /\ result.score > 0

-----------------------------------------------------------------------------
(* Properties of the rankers, checked under MainSpec                        *)

\* the list in suggestions is what the lexical ranker returned for typed
LexicalRanked == pc # "panic" /\ ~semantic_search /\ typed # <<>>

TextsOf(list) == {list[i].text : i \in 1..Len(list)}

\* C4: the lexical ranker leaves out every candidate of which the query is no
\* subsequence and orders the rest by score: for "hey" against
\* ["hey", "heyp", "xyz"] it returns "hey" with 1000, then "heyp" with a
\* score > 0, and nothing for "xyz".
C4_LexicalRankerOmitsNonMatches ==
    /\ LexicalRanked =>
           \A i \in 1..Len(sample_options) :
               ~IsSubsequence(to_lowercase(typed), to_lowercase(sample_options[i]))
                   => sample_options[i] \notin TextsOf(suggestions)
    /\ (LexicalRanked /\ typed = Str_hey
            /\ sample_options = <<Str_hey, Str_heyp, Str_xyz>>) =>
           /\ Len(suggestions) = 2
           /\ suggestions[1].text = Str_hey
           /\ suggestions[1].score = 1000
           /\ suggestions[2].text = Str_heyp
           /\ suggestions[2].score > 0

\* C5: the list a ranker returns is in descending order of score.
C5_RankedDescending ==
    \A i \in 1..(Len(suggestions) - 1) :
        suggestions[i].score >= suggestions[i + 1].score

\* the lexical ranker returned a list whose best entry was not first in words.txt
C5_Witness ==
    /\ ~semantic_search
    /\ Len(suggestions) >= 2
    /\ suggestions[1].text # sample_options[1]
    /\ suggestions[1].score > suggestions[Len(suggestions)].score

\* the semantic ranker returned a list whose best entry was not first in the table
C5_WitnessSemantic ==
    /\ semantic_search
    /\ Len(suggestions) >= 2
    /\ suggestions[1].text # embeddings[1].text
    /\ suggestions[1].score > suggestions[Len(suggestions)].score

-----------------------------------------------------------------------------
(* Properties of semantic mode, checked under MainSpec                      *)

\* the last key ended its ranking in get_semantic_suggestions
SemanticCalled == semantic_search /\ rank_outcome \in {"semantic", "semantic_panicked"}

TableTexts == [i \in 1..Len(embeddings) |-> embeddings[i].text]

TimesIn(texts, t) == Cardinality({i \in 1..Len(texts) : texts[i] = t})

IsPermutation(a, b) ==
    /\ Len(a) = Len(b)
    /\ \A i \in 1..Len(a) : TimesIn(a, a[i]) = TimesIn(b, a[i])

\* C11: semantic mode never discards: whatever was typed, a call of
\* get_semantic_suggestions returns, and the list it returns holds one
\* Suggestion for each entry of the embedding table, its texts a permutation
\* of the table's texts.
C11_SemanticNeverDiscards ==
    SemanticCalled =>
        /\ rank_outcome = "semantic"
        /\ IsPermutation([i \in 1..Len(suggestions) |-> suggestions[i].text],
                         TableTexts)

-----------------------------------------------------------------------------
(* Properties of the display, checked under MainSpec                        *)

\* C12: the highlight loop of draw_suggestions prints the characters of text
\* in order, each exactly once: every row the last draw_suggestions call
\* finished shows the text of its suggestion, nothing repeated and nothing
\* dropped.
C12_HighlightPrintsText ==
    \A i \in 1..rows_drawn : screen[i] = Bytes(suggestions[i].text)

\* main is in its loop or has left it by a break: no panic has ended it
Running == pc \in {"loop", "done"}

\* C13: after any sequence of keys the loop has handled, last_suggestion_count
\* is the number of rows the last draw_suggestions call drew, which is the
\* smaller of the number of ranked suggestions and 20, so it is never above
\* 20; the next clear_previous_suggestions call clears just those rows, and
\* no row below them holds anything.
C13_CountIsRowsDrawn ==
    Running =>
        /\ last_suggestion_count = rows_drawn
        /\ rows_drawn = Min2(Len(suggestions), DisplayLimit)
        /\ last_suggestion_count <= DisplayLimit
        /\ \A i \in (last_suggestion_count + 1)..Len(screen) : screen[i] = <<>>

\* keys have been handled with more suggestions ranked than rows are shown
C13_Witness ==
    /\ pc = "loop"
    /\ Len(typed) >= 2
    /\ Len(suggestions) > DisplayLimit
    /\ last_suggestion_count = DisplayLimit
    /\ rows_drawn = DisplayLimit
    /\ Len(screen) = DisplayLimit

====
